---- MODULE Spec2Model ----
(***************************************************************************)
(* pg_arman backup engine (backup.c): do_backup, do_backup_database,       *)
(* wait_for_archive, backup_cleanup, backup_files, add_files and           *)
(* process_block_change as one state machine.  One run of do_backup is one *)
(* behaviour; the database server, the archiver, the operator's signal and *)
(* the file system are the environment.                                    *)
(***************************************************************************)
EXTENDS Integers, Sequences, FiniteSets, TLC

\* ------------------------------------------------------------------ bounds
\* largest modification time a file of the data directory carries
MaxMtime == 3
\* largest number of entries the directory scan returns
MaxFiles == 2
\* largest number of block references found in the scanned WAL range
MaxWal == 1
\* largest number of entries of the parent backup's file list
MaxPrev == 1
\* largest number of stat() calls of one run that fail with an errno other
\* than ENOENT
MaxStatFaults == 1
\* calls of process_block_change made one after the other on one list
MaxCalls == 3

\* --------------------------------------------------------- program constants
TIMEOUT_ARCHIVE == 10
\* blocks per relation segment (PostgreSQL build constant used at backup.c:906)
RELSEG_SIZE == 131072
\* sentinel of pgFile.write_size and pgBackup.data_bytes
BYTES_INVALID == -1

\* the wall clock (seconds) when do_backup starts, and the second at which the
\* model stops telling later seconds apart (every mtime is then in the past)
StartClock == MaxMtime - 1
MaxClock == MaxMtime + 1

\* the timeline get_current_timeline() reads from the control file
CurrentTli == 1

VARIABLES
    pc,             \* position of the single thread of control
    pgdata,         \* TRUE iff the data-directory path is set (pgdata != NULL)
    check,          \* the -c/--check (dry run) flag
    current,        \* the global pgBackup current
    in_backup,      \* static bool in_backup
    server_version, \* static int server_version (0 = not checked yet)
    atexit_stack,   \* TRUE iff backup_cleanup is registered (pgut_atexit_push)
    in_cleanup,     \* TRUE once the exit callbacks have been started
    interrupted,    \* the flag set by the signal handler
    lockRet,        \* result of catalog_lock(): 0, 1, -1; 2 = not called yet
    lockHeld,       \* this invocation holds the catalog lock
    ini,            \* backup.ini of the current record on disk (NoRecord = none)
    iniWrites,      \* number of times backup.ini has been written
    dirName,        \* start time naming the record directory (0 = not created)
    dirsCreated,    \* number of record directories created by this run
    mkdirs_sh,      \* mkdirs.sh has been written
    file_list_txt,  \* file_database.txt: the entries written (<<>> = not written)
    fileListWritten,\* file_database.txt has been written
    dbDirs,         \* directories created under database/
    copied,         \* paths handed to a copier (copy_file / backup_data_file)
    recovery_conf,  \* state of $PGDATA/recovery.conf
    label,          \* state of $PGDATA/backup_label
    ready,          \* state of the .ready marker wait_for_archive polls for
    clock,          \* wall clock, seconds
    tv_sec,         \* struct timeval tv of backup_files
    serverLsn,      \* the server's current WAL position
    backup_list,    \* catalog_get_backup_list(NULL)
    prev_files,     \* parray *prev_files: NULL, or the parent's list, path -> mtime
    lsn,            \* XLogRecPtr *lsn of do_backup_database (0 = NULL)
    files,          \* backup_files_list
    idx,            \* loop index i of backup_files (1-based)
    wfaCtx,         \* which call of wait_for_archive is running
    try_count,      \* try_count of wait_for_archive
    statFaults,     \* number of stat() calls that failed with errno != ENOENT
    errlog,         \* messages of the elog(ERROR) calls made, in order
    exitStatus,     \* process exit status (-1 = still running)
    trace,          \* history: the externally visible events, in order
    pbc             \* the last call of process_block_change made on its own:
                    \* its arguments, its locals and the list it was given

vars == <<pc, pgdata, check, current, in_backup, server_version, atexit_stack,
          in_cleanup, interrupted, lockRet, lockHeld, ini, iniWrites,
          dirName, dirsCreated, mkdirs_sh, file_list_txt, fileListWritten, dbDirs,
          copied, recovery_conf, label, ready, clock, tv_sec, serverLsn,
          backup_list, prev_files, lsn, files, idx, wfaCtx, try_count, statFaults,
          errlog, exitStatus, trace, pbc>>

\* ------------------------------------------------------------ data universe
\* The entries the directory scan may return, in strcmp order of their path
\* (an entry is named by its index, so that sorting by index is sorting by path).
PathTable == <<
    [name |-> "PG_VERSION",   mode |-> "REG", top |-> "",     digit |-> FALSE],
    [name |-> "base/1",       mode |-> "DIR", top |-> "base", digit |-> TRUE],
    [name |-> "base/1/100",   mode |-> "REG", top |-> "base", digit |-> TRUE],
    [name |-> "base/1/100.1", mode |-> "REG", top |-> "base", digit |-> TRUE] >>
Paths == 1..Len(PathTable)

Mtimes == 1..MaxMtime
\* the mtimes the parent backup, taken before this run started, can have recorded
PrevMtimes == 1..(StartClock - 1)

\* a pgBackup record
NoRecord == [status |-> "NONE", backup_mode |-> "INVALID", tli |-> 0,
             start_lsn |-> 0, stop_lsn |-> 0, start_time |-> 0, end_time |-> 0,
             data_bytes |-> BYTES_INVALID, recovery_xid |-> 0, recovery_time |-> 0]

OldBackup(mode, status, tli, slsn) ==
    [NoRecord EXCEPT !.status = status, !.backup_mode = mode, !.tli = tli,
                     !.start_lsn = slsn, !.stop_lsn = slsn, !.start_time = 1,
                     !.end_time = 1]

\* the catalogs do_backup may find, each sorted by start time descending
CatalogLists == {
    << OldBackup("DIFF_PAGE", "DONE", CurrentTli, 1),
       OldBackup("FULL", "DONE", CurrentTli, 1) >>,
    << OldBackup("FULL", "ERROR", CurrentTli, 1),
       OldBackup("FULL", "DONE", CurrentTli + 1, 1) >> }


\* the block references the WAL range may hold: (relation oid, block number)
WalRefs == { <<100, 0>>, <<100, RELSEG_SIZE + 1>>, <<200, 0>> }

\* ------------------------------------------------------------- pure helpers
Max(a, b) == IF a > b THEN a ELSE b

\* sleep(1) / usleep: the clock moves on (seconds at or past MaxClock are alike)
Tick(c) == IF c < MaxClock THEN c + 1 ELSE c

\* what stat(2) can answer for a file that is absent / present as a regular
\* file: ENOENT for the absent one; for the present one either its mode or a
\* failure with another errno (EACCES, EIO, ...)
StatOf(fs, faults) ==
    IF fs = "absent" THEN {"ENOENT"}
    ELSE IF faults < MaxStatFaults THEN {"REG", "EOTHER"} ELSE {"REG"}

\* the count of failed stat() calls after one more call answered st
Faults(st, faults) == IF st = "EOTHER" THEN faults + 1 ELSE faults

\* fileExists(): when stat fails with errno != ENOENT the code goes on to read
\* buf.st_mode, which stat did not fill in; isreg_garbage is what S_ISREG makes
\* of that indeterminate value.
fileExists(st, isreg_garbage) ==
    IF st = "ENOENT" THEN FALSE
    ELSE IF st = "EOTHER" THEN isreg_garbage
    ELSE st = "REG"

\* the exit status elog() ends the process with, by error level
ExitStatus(elevel) == IF elevel = "ERROR" THEN 1 ELSE 0

\* the error level do_backup raises for each result of catalog_lock()
LockElevel(ret) == IF ret = -1 THEN "ERROR" ELSE IF ret = 1 THEN "ERROR" ELSE "NONE"

\* do_backup goes on after catalog_lock() only when the lock was acquired
LockProceedsSkipsContention(ret) == ret # -1
LockProceeds(ret) == LockElevel(ret) = "NONE"

\* catalog_get_last_data_backup(): the most recent DONE FULL record on tli
RECURSIVE catalog_get_last_data_backup(_, _)
catalog_get_last_data_backup(list, tli) ==
    IF list = << >> THEN NoRecord
    ELSE IF /\ Head(list).backup_mode = "FULL"
            /\ Head(list).status = "DONE"
            /\ Head(list).tli = tli
         THEN Head(list)
         ELSE catalog_get_last_data_backup(Tail(list), tli)

\* pgut_atexit_push() / pgut_atexit_pop() of backup_cleanup: whether the
\* callback is registered afterwards
pgut_atexit_push(registered) == TRUE
pgut_atexit_pop(registered) == FALSE

\* the loop condition of backup_files(), i < parray_num(files), for the
\* 1-based index of the model
MoreFilesButLast(i, n) == i < n
MoreFiles(i, n) == i <= n

\* a fresh pgFile as dir_list_file() makes it
pgFileNew(p, mt) ==
    [path |-> p, mode |-> PathTable[p].mode, mtime |-> mt, is_datafile |-> FALSE,
     pagemap |-> {}, write_size |-> 0]

\* the marking loop of add_files(), for one entry, with is_pgdata = true
MarkDatafile(f) ==
    IF f.mode # "REG" THEN f
    ELSE IF PathTable[f.path].top \notin {"base", "global", "pg_tblspc"} THEN f
    ELSE IF ~PathTable[f.path].digit THEN f
    ELSE [f EXCEPT !.is_datafile = TRUE]

add_files(list_file) == [i \in 1..Len(list_file) |-> MarkDatafile(list_file[i])]

\* ascending sequences of distinct paths, at most n long
RECURSIVE PathSeqs(_, _)
PathSeqs(n, lo) ==
    IF n = 0 THEN { << >> }
    ELSE { << >> } \cup
         UNION { { <<p>> \o t : t \in PathSeqs(n - 1, p + 1) } : p \in lo..Len(PathTable) }

\* what dir_list_file() may return for the data directory
ScanResults ==
    UNION { { [i \in 1..Len(ps) |-> pgFileNew(ps[i], m[i])] :
              m \in [1..Len(ps) -> Mtimes] } : ps \in PathSeqs(MaxFiles, 1) }

\* parray_qsort(files, pgFileComparePath) / pgFileComparePathDesc
RECURSIVE SortAsc(_)
SortAsc(fl) ==
    IF fl = << >> THEN << >>
    ELSE LET i == CHOOSE i \in 1..Len(fl) : \A j \in 1..Len(fl) : fl[i].path <= fl[j].path
         IN  <<fl[i]>> \o SortAsc([k \in 1..(Len(fl) - 1) |-> IF k < i THEN fl[k] ELSE fl[k + 1]])

Reverse(s) == [i \in 1..Len(s) |-> s[Len(s) + 1 - i]]
SortDesc(fl) == Reverse(SortAsc(fl))

\* the value of pgdata, and the "%s/%s" of line 910 and of dir_list_file()
PgdataRoot == "/pgdata"
JoinPath(root, rel) == root \o "/" \o rel

\* p->path of an entry of the file list
EntryPath(f) == JoinPath(PgdataRoot, PathTable[f.path].name)

\* relpathperm() for a relation of database 1 in the default tablespace: the
\* main fork has no suffix, another fork has _<fork>
relpathperm(rel, forknum) ==
    "base/1/" \o ToString(rel) \o (IF forknum = "main" THEN "" ELSE "_" \o forknum)

\* datasegpath(): segment 0 has no suffix, segment N > 0 has suffix .N
datasegpath(rel, forknum, segno) ==
    IF segno > 0 THEN relpathperm(rel, forknum) \o "." \o ToString(segno)
    ELSE relpathperm(rel, forknum)

\* line 906: segno = blkno / RELSEG_SIZE
SegNo(blkno) == blkno \div RELSEG_SIZE

\* (variant: the block number is not reduced to the segment)
BlknoWhole(blkno) == blkno

\* line 907: blkno_inseg = blkno % RELSEG_SIZE
BlknoInSeg(blkno) == blkno % RELSEG_SIZE

\* lines 909-911: path = pgdata "/" datasegpath(rnode, forknum, segno)
LookupPath(forknum, rel, blkno) ==
    JoinPath(PgdataRoot, datasegpath(rel, forknum, SegNo(blkno)))

\* datapagemap_add(): set the bit of the block in the map
datapagemap_add(map, blk) == map \cup {blk}

\* (variant: the block is noted for every entry of the list)
process_block_change_every(fl, forknum, rel, blkno) ==
    [j \in 1..Len(fl) |->
        [fl[j] EXCEPT !.pagemap = datapagemap_add(@, BlknoInSeg(blkno))]]

\* process_block_change(): note the block in the page map of the first entry
\* of the file list whose path is the segment's path
process_block_change(fl, forknum, rel, blkno) ==
    LET path == LookupPath(forknum, rel, blkno)
        hits == { j \in 1..Len(fl) : EntryPath(fl[j]) = path }
    IN  IF hits = {} THEN fl
        ELSE LET j == CHOOSE j \in hits : \A k \in hits : j <= k
             IN  [fl EXCEPT ![j].pagemap = datapagemap_add(@, BlknoInSeg(blkno))]

\* extractPageMap(): one call of process_block_change per block reference
\* (the references of the model are to main forks)
RECURSIVE extractPageMap(_, _)
extractPageMap(fl, wal) ==
    IF wal = << >> THEN fl
    ELSE extractPageMap(process_block_change(fl, "main", Head(wal)[1], Head(wal)[2]),
                        Tail(wal))

\* no call of process_block_change made on its own yet
NoCall == [forknum |-> "none", rel |-> 0, blkno |-> 0, segno |-> 0, blkno_inseg |-> 0,
           path |-> "", before |-> << >>, n |-> 0, again |-> FALSE]

\* the WAL ranges the reader may find in the archive
WalChoices == UNION { [1..n -> WalRefs] : n \in 0..MaxWal }

\* the parent's file list as dir_read_file_list() returns it
NullFiles == [isNull |-> TRUE, mtime |-> [p \in Paths |-> 0]]
PrevChoices ==
    { [isNull |-> FALSE, mtime |-> m] :
      m \in { f \in [Paths -> {0} \cup PrevMtimes] :
                Cardinality({p \in Paths : f[p] # 0}) <= MaxPrev } }


\* ------------------------------------------------------------ initial state
Init ==
    /\ pc = "start"
    /\ pgdata \in BOOLEAN
    /\ check \in BOOLEAN
    /\ current \in { [NoRecord EXCEPT !.backup_mode = m] : m \in {"INVALID", "FULL", "DIFF_PAGE"} }
    /\ in_backup = FALSE
    /\ server_version = "unchecked"
    /\ atexit_stack = FALSE
    /\ in_cleanup = FALSE
    /\ interrupted = FALSE
    /\ lockRet = 2
    /\ lockHeld = FALSE
    /\ ini = NoRecord
    /\ iniWrites = 0
    /\ dirName = 0
    /\ dirsCreated = 0
    /\ mkdirs_sh = FALSE
    /\ file_list_txt = << >>
    /\ fileListWritten = FALSE
    /\ dbDirs = {}
    /\ copied = {}
    /\ recovery_conf \in {"absent", "regular"}
    /\ label = "absent"
    /\ ready = "absent"
    /\ clock = StartClock
    /\ tv_sec = 0
    /\ serverLsn = 1
    /\ backup_list = << >>
    /\ prev_files = NullFiles
    /\ lsn = 0
    /\ files = << >>
    /\ idx = 0
    /\ wfaCtx = "none"
    /\ try_count = 0
    /\ statFaults = 0
    /\ errlog = << >>
    /\ exitStatus = -1
    /\ trace = << >>
    /\ pbc = NoCall

\* ------------------------------------------------------ control-flow helpers
\* elog(elevel, msg) with an error level: the message is written and the
\* process exits with the status of the level
Elog(elevel, msg) ==
    /\ errlog' = Append(errlog, msg)
    /\ exitStatus' = ExitStatus(elevel)
    /\ in_cleanup' = in_cleanup
    /\ pc' = "exit"

Fatal(msg) == Elog("ERROR", msg)

Goto(p) ==
    /\ pc' = p
    /\ UNCHANGED <<errlog, exitStatus, in_cleanup>>

opts == <<pgdata, check, pbc>>
disk == <<ini, iniWrites, dirName, dirsCreated, mkdirs_sh, file_list_txt,
          fileListWritten, dbDirs, copied>>
ctl  == <<in_backup, server_version, atexit_stack>>
lock == <<lockRet, lockHeld>>
env  == <<recovery_conf, label, ready, clock, serverLsn, statFaults>>
data == <<backup_list, prev_files, lsn, files, idx, tv_sec>>
wfa  == <<wfaCtx, try_count>>

Running == pc \notin {"exited", "returned"}

\* ------------------------------------------------------------- environment
\* the operator's signal: the handler sets the interrupt flag
Signal ==
    /\ Running
    /\ ~interrupted
    /\ interrupted' = TRUE
    /\ UNCHANGED <<pc, errlog, exitStatus, in_cleanup, opts, disk, ctl, lock, env,
                   data, wfa, current, trace>>

\* ---------------------------------------------------------------- do_backup
\* (variant: the backup mode is not checked)
ModeMissingNever(mode) == FALSE
\* line 262: no backup mode was given
ModeMissing(mode) == mode = "INVALID"

\* do_backup, lines 256-264: the required parameters
CheckArgs ==
    /\ pc = "start"
    /\ IF ~pgdata
       THEN Fatal("Required parameter not specified: PGDATA (-D, --pgdata)")
       ELSE IF ModeMissing(current.backup_mode)
       THEN Fatal("Required parameter not specified: BACKUP_MODE (-b, --backup-mode)")
       ELSE Goto("check_server_version")
    /\ UNCHANGED <<opts, disk, ctl, lock, env, data, wfa, current, trace, interrupted>>

\* check_server_version() and confirm_block_size(), then in_backup = true
check_server_version ==
    /\ pc = "check_server_version"
    /\ \E v \in {"PG_VERSION_NUM", "other"}, blcksz_ok \in BOOLEAN :
         /\ server_version' = IF server_version = "unchecked" THEN v ELSE server_version
         /\ IF server_version = "unchecked" /\ v # "PG_VERSION_NUM"
            THEN /\ Fatal("server version mismatch")
                 /\ UNCHANGED in_backup
            ELSE IF server_version = "unchecked" /\ ~blcksz_ok
            THEN /\ Fatal("block_size is not compatible")
                 /\ UNCHANGED in_backup
            ELSE /\ in_backup' = TRUE
                 /\ Goto("catalog_lock")
    /\ UNCHANGED <<opts, disk, atexit_stack, lock, env, data, wfa, current, trace,
                   interrupted>>

\* do_backup, lines 280-286: get the exclusive lock of the catalog
CatalogLock ==
    /\ pc = "catalog_lock"
    /\ \E ret \in {0, 1, -1} :
         /\ lockRet' = ret
         /\ lockHeld' = (ret = 0)
         /\ IF LockProceeds(ret)
            THEN Goto("init_record")
            ELSE Elog(LockElevel(ret),
                      IF ret = -1 THEN "cannot lock backup catalog"
                      ELSE "another pg_arman is running, skipping this backup")
    /\ UNCHANGED <<opts, disk, ctl, env, data, wfa, current, trace, interrupted>>

\* do_backup, lines 288-299: initialize backup result
InitRecord ==
    /\ pc = "init_record"
    /\ current' = [current EXCEPT !.status = "RUNNING", !.tli = 0, !.start_lsn = 0,
                                  !.stop_lsn = 0, !.start_time = clock, !.end_time = 0,
                                  !.data_bytes = BYTES_INVALID, !.recovery_xid = 0,
                                  !.recovery_time = 0]
    /\ Goto("create_dir")
    /\ UNCHANGED <<opts, disk, ctl, lock, env, data, wfa, trace, interrupted>>

\* do_backup, lines 301-307: pgBackupCreateDir() and the first pgBackupWriteIni()
CreateDir ==
    /\ pc = "create_dir"
    /\ IF check
       THEN /\ Goto("get_backup_list")
            /\ UNCHANGED <<ini, iniWrites, dirName, dirsCreated>>
       ELSE \E mkdir_ok \in BOOLEAN, write_ok \in BOOLEAN :
              IF ~mkdir_ok
              THEN /\ Fatal("cannot create backup directory")
                   /\ UNCHANGED <<ini, iniWrites, dirName, dirsCreated>>
              ELSE /\ dirName' = current.start_time
                   /\ dirsCreated' = dirsCreated + 1
                   /\ IF write_ok
                      THEN /\ ini' = current
                           /\ iniWrites' = iniWrites + 1
                           /\ Goto("get_backup_list")
                      ELSE /\ Fatal("can't open backup.ini")
                           /\ UNCHANGED <<ini, iniWrites>>
    /\ UNCHANGED <<opts, mkdirs_sh, file_list_txt, fileListWritten, dbDirs, copied,
                   ctl, lock, env, data, wfa, current, trace, interrupted>>

\* do_backup, lines 310-316: catalog_get_backup_list(), then pgut_atexit_push()
GetBackupList ==
    /\ pc = "get_backup_list"
    /\ \E failed \in BOOLEAN, l \in CatalogLists :
         IF failed
         THEN /\ Fatal("cannot process any more")
              /\ UNCHANGED <<backup_list, atexit_stack>>
         ELSE /\ backup_list' = l
              /\ atexit_stack' = pgut_atexit_push(atexit_stack)
              /\ Goto("pg_is_standby")
    /\ UNCHANGED <<opts, disk, in_backup, server_version, lock, env, prev_files, lsn,
                   files, idx, tv_sec, wfa, current, trace, interrupted>>


\* ------------------------------------------------------- do_backup_database
\* lines 76-93: pg_is_standby(), sanityChecks(), get_current_timeline()
StandbyCheck ==
    /\ pc = "pg_is_standby"
    /\ \E st \in StatOf(recovery_conf, statFaults), g \in BOOLEAN, sane \in BOOLEAN :
         /\ statFaults' = Faults(st, statFaults)
         /\ IF fileExists(st, g)
            THEN /\ Fatal("Backup cannot run on a standby.")
                 /\ UNCHANGED current
            ELSE IF ~sane
            THEN /\ Fatal("sanity check failed")
                 /\ current' = [current EXCEPT !.data_bytes = 0]
            ELSE /\ current' = [current EXCEPT !.data_bytes = 0, !.tli = CurrentTli]
                 /\ Goto("parent_check")
    /\ UNCHANGED <<opts, disk, ctl, lock, recovery_conf, label, ready, clock, serverLsn,
                   data, wfa, trace, interrupted>>

\* lines 95-108: a differential backup needs a valid full backup on the timeline
ParentCheck ==
    /\ pc = "parent_check"
    /\ IF /\ current.backup_mode = "DIFF_PAGE"
          /\ catalog_get_last_data_backup(backup_list, current.tli) = NoRecord
       THEN Fatal("Valid full backup not found for differential backup.")
       ELSE Goto("pg_start_backup")
    /\ UNCHANGED <<opts, disk, ctl, lock, env, data, wfa, current, trace, interrupted>>

\* lines 110-113 and pg_start_backup(): the server starts the backup, writes
\* backup_label and answers the start position
pg_start_backup ==
    /\ pc = "pg_start_backup"
    /\ \E res_ok \in BOOLEAN, lab \in {"regular", "absent"} :
         IF ~res_ok
         THEN /\ Fatal("result of backup command is invalid")
              /\ UNCHANGED <<current, label, serverLsn, trace>>
         ELSE /\ serverLsn' = serverLsn + 1
              /\ label' = lab
              /\ current' = [current EXCEPT !.start_lsn = serverLsn + 1]
              /\ trace' = Append(trace, "pg_start_backup")
              /\ Goto("check_label")
    /\ UNCHANGED <<opts, disk, ctl, lock, recovery_conf, ready, clock, statFaults, data,
                   wfa, interrupted>>

\* lines 115-127: without backup_label, stop the backup and leave
CheckLabel ==
    /\ pc = "check_label"
    /\ \E st \in StatOf(label, statFaults), g \in BOOLEAN :
         /\ statFaults' = Faults(st, statFaults)
         /\ IF fileExists(st, g)
            THEN /\ Goto("dir_list_file")
                 /\ UNCHANGED wfaCtx
            ELSE /\ Goto("wait_for_archive")
                 /\ wfaCtx' = "stop_nolabel"
    /\ UNCHANGED <<opts, disk, ctl, lock, recovery_conf, label, ready, clock, serverLsn,
                   data, try_count, current, trace, interrupted>>

\* lines 129-153: list the directories and write mkdirs.sh
ListDirs ==
    /\ pc = "dir_list_file"
    /\ trace' = Append(trace, "dir_list_file")
    /\ IF check
       THEN /\ Goto("read_prev")
            /\ UNCHANGED mkdirs_sh
       ELSE \E fopen_ok \in BOOLEAN, chmod_ok \in BOOLEAN :
              IF ~fopen_ok
              THEN /\ Fatal("can't open make directory script")
                   /\ UNCHANGED mkdirs_sh
              ELSE /\ mkdirs_sh' = TRUE
                   /\ IF chmod_ok THEN Goto("read_prev")
                      ELSE Fatal("can't change mode of mkdirs.sh")
    /\ UNCHANGED <<opts, ini, iniWrites, dirName, dirsCreated, file_list_txt,
                   fileListWritten, dbDirs, copied, ctl, lock, env, data, wfa,
                   current, interrupted>>

\* lines 155-173: in differential mode read the parent's file list.  The
\* list of backups is read again through prev_backup only, at line 205 of a
\* differential run.
ReadPrev ==
    /\ pc = "read_prev"
    /\ IF current.backup_mode = "DIFF_PAGE"
       THEN /\ prev_files' \in PrevChoices
            /\ lsn' = catalog_get_last_data_backup(backup_list, current.tli).start_lsn
       ELSE UNCHANGED <<prev_files, lsn>>
    /\ backup_list' = IF current.backup_mode = "DIFF_PAGE" THEN backup_list ELSE << >>
    /\ Goto("add_files")
    /\ UNCHANGED <<opts, disk, ctl, lock, env, files, idx, tv_sec, wfa, current, trace,
                   interrupted>>

\* lines 175-182: list the files of the data directory; in differential mode
\* go on to the WAL switch of line 196
AddFiles ==
    /\ pc = "add_files"
    /\ \E list_file \in ScanResults : files' = add_files(list_file)
    /\ trace' = Append(trace, "add_files")
    /\ IF current.backup_mode = "DIFF_PAGE"
       THEN /\ Goto("wait_for_archive")
            /\ wfaCtx' = "switch"
       ELSE /\ Goto("backup_files")
            /\ UNCHANGED wfaCtx
    /\ UNCHANGED <<opts, disk, ctl, lock, env, backup_list, prev_files, lsn, idx,
                   tv_sec, try_count, current, interrupted>>


\* --------------------------------------------------------- wait_for_archive
\* (variant: only the call of line 196 passes a backup)
HasBackupSwitchOnly(ctx) == ctx = "switch"
\* the calls that pass a backup to fill in: line 196 (switch) and line 215 (stop)
HasBackup(ctx) == ctx \in {"switch", "stop"}
\* the calls that run pg_stop_backup(): lines 125, 215 and 617
IsStop(ctx) == ctx \in {"stop", "stop_nolabel", "cleanup"}

\* wait_for_archive(), lines 449-498: run the statement, note its position,
\* timeline, transaction id and time, name the .ready marker to wait for
WfaExec ==
    /\ pc = "wait_for_archive"
    /\ trace' = Append(trace, IF IsStop(wfaCtx) THEN "pg_stop_backup" ELSE "pg_switch_xlog")
    /\ \E res \in {"ok", "bad_lsn", "bad_xid"} :
         IF res = "bad_lsn"
         THEN /\ Fatal("result of backup command is invalid")
              /\ UNCHANGED <<current, label, ready, serverLsn, try_count>>
         ELSE /\ serverLsn' = serverLsn + 1
              /\ label' = IF IsStop(wfaCtx) THEN "absent" ELSE label
              /\ ready' = "regular"
              /\ IF HasBackup(wfaCtx) /\ res = "bad_xid"
                 THEN /\ current' = [current EXCEPT !.tli = CurrentTli,
                                                    !.stop_lsn = serverLsn + 1]
                      /\ Fatal("result of txid_current() is invalid")
                      /\ UNCHANGED try_count
                 ELSE /\ current' = IF HasBackup(wfaCtx)
                                    THEN [current EXCEPT !.tli = CurrentTli,
                                                         !.stop_lsn = serverLsn + 1,
                                                         !.recovery_xid = 1,
                                                         !.recovery_time = clock]
                                    ELSE current
                      /\ try_count' = 0
                      /\ Goto("wfa_poll")
    /\ UNCHANGED <<opts, disk, ctl, lock, recovery_conf, clock, statFaults, data,
                   wfaCtx, interrupted>>

\* (variant: after the pg_stop_backup of line 125 the run goes on)
WfaReturnNoLabelGoesOn ==
    CASE wfaCtx = "switch" ->
           /\ trace' = Append(trace, "wait_for_archive returned")
           /\ Goto("extractPageMap")
      [] wfaCtx = "stop" ->
           /\ trace' = Append(trace, "pg_stop_backup returned")
           /\ Goto("create_file_list")
      [] wfaCtx = "stop_nolabel" ->
           /\ trace' = trace
           /\ Goto("dir_list_file")
      [] OTHER ->
           /\ trace' = trace
           /\ Goto("cleanup_update")

\* where each call of wait_for_archive returns to
WfaReturn ==
    CASE wfaCtx = "switch" ->
           /\ trace' = Append(trace, "wait_for_archive returned")
           /\ Goto("extractPageMap")
      [] wfaCtx = "stop" ->
           /\ trace' = Append(trace, "pg_stop_backup returned")
           /\ Goto("create_file_list")
      [] wfaCtx = "stop_nolabel" ->
           /\ trace' = trace
           /\ Fatal("backup_label does not exist in PGDATA.")
      [] OTHER ->
           /\ trace' = trace
           /\ Goto("cleanup_update")

\* (variant: the sleeps are not counted)
CountTryStuck(n) == n

\* line 505: try_count++
CountTry(n) == n + 1

\* wait_for_archive(), lines 497-511: one test of the loop condition (the
\* archiver may have removed the marker by then) and, when the marker is
\* seen, one pass of the body
WfaPoll ==
    /\ pc = "wfa_poll"
    /\ \E archived \in BOOLEAN, g \in BOOLEAN :
       \E st \in StatOf(IF archived THEN "absent" ELSE ready, statFaults) :
         /\ ready' = IF archived THEN "absent" ELSE ready
         /\ statFaults' = Faults(st, statFaults)
         /\ IF ~fileExists(st, g)
            THEN /\ WfaReturn
                 /\ try_count' = 0
                 /\ UNCHANGED clock
            ELSE /\ clock' = Tick(clock)
                 /\ trace' = trace
                 /\ IF interrupted
                    THEN /\ Fatal("interrupted during waiting for WAL archiving")
                         /\ UNCHANGED try_count
                    ELSE /\ try_count' = CountTry(try_count)
                         /\ IF try_count' > TIMEOUT_ARCHIVE
                            THEN Fatal("switched WAL could not be archived in 10 seconds")
                            ELSE Goto("wfa_poll")
    /\ UNCHANGED <<opts, disk, ctl, lock, recovery_conf, label, serverLsn, data,
                   wfaCtx, current, interrupted>>

\* ------------------------------------------------ page map (lines 193-210)
\* (variant: the range ends at the position of the WAL switch)
ReaderArgsToSwitch == [from |-> lsn, tli |-> current.tli, to |-> current.stop_lsn]

\* lines 205-206: the arguments of extractPageMap(); prev_backup->start_lsn is
\* the field lsn points to
ReaderArgs == [from |-> lsn, tli |-> current.tli, to |-> current.start_lsn]

\* the block references the reader finds in a range: none in an empty range
WalRange(args) == IF args.from < args.to THEN WalChoices ELSE { << >> }

\* sort the list by path descending and run the WAL reader over the range
\* [parent start position, start position of this backup)
ExtractPageMap ==
    /\ pc = "extractPageMap"
    /\ \E wal \in WalRange(ReaderArgs), read_ok \in BOOLEAN :
         IF ~read_ok
         THEN /\ files' = SortDesc(files)
              /\ trace' = Append(trace, "extractPageMap")
              /\ Fatal("could not read WAL record")
         ELSE /\ files' = extractPageMap(SortDesc(files), wal)
              /\ trace' = Append(trace, "extractPageMap")
              /\ Goto("backup_files")
    /\ backup_list' = << >>
    /\ UNCHANGED <<opts, disk, ctl, lock, env, prev_files, lsn, idx,
                   tv_sec, wfa, current, interrupted>>


\* ------------------------------------------------------------- backup_files
\* lines 647-650: sort by path ascending and read the clock
BackupFilesStart ==
    /\ pc = "backup_files"
    /\ files' = SortAsc(files)
    /\ tv_sec' = clock
    /\ idx' = 1
    /\ Goto("file_loop")
    /\ UNCHANGED <<opts, disk, ctl, lock, env, backup_list, prev_files, lsn, wfa,
                   current, trace, interrupted>>

\* (variant: a file with an empty page map is skipped as well)
SkipUnmodifiedOrCleanMap(file, prev) ==
    /\ ~prev.isNull
    /\ \/ prev.mtime[file.path] # 0 /\ prev.mtime[file.path] = file.mtime
       \/ file.pagemap = {}

\* lines 715-757: a regular file is skipped when the parent's list has an
\* entry of the same path and the same mtime
SkipUnmodified(file, prev) ==
    /\ ~prev.isNull
    /\ prev.mtime[file.path] # 0
    /\ prev.mtime[file.path] = file.mtime

\* (variant: a skipped entry keeps its write size)
SkipEntryKeepsSize(f) == f

\* lines 691 and 753: an entry that is skipped is recorded with the sentinel
\* as its write size
SkipEntry(f) == [f EXCEPT !.write_size = BYTES_INVALID]

\* (variant: the copier is called without the wait)
WaitNextSecondSkipped(tv, clk, mtime) == tv

\* lines 759-774: the second the clock shows once the wait for the second
\* after the file's mtime is over
WaitNextSecond(tv, clk, mtime) == IF tv = mtime THEN Max(clk, mtime + 1) ELSE tv

\* lines 653-791: one pass of the loop over the file list, or its end and
\* the call of pg_stop_backup(&current) of line 215.  backup_files() returns
\* with its locals gone; its arguments prev_files and lsn are not read again.
FileLoop ==
    /\ pc = "file_loop"
    /\ IF ~MoreFiles(idx, Len(files))
       THEN /\ trace' = Append(trace, "backup_files returned")
            /\ wfaCtx' = "stop"
            /\ Goto("wait_for_archive")
            /\ idx' = 0
            /\ tv_sec' = 0
            /\ prev_files' = NullFiles
            /\ lsn' = 0
            /\ UNCHANGED <<files, clock, dbDirs, copied>>
       ELSE LET file == files[idx] IN
            /\ UNCHANGED <<prev_files, lsn, wfaCtx>>
            /\ IF tv_sec < file.mtime
               THEN /\ Fatal("current time may be rewound. Please retry with full backup mode.")
                    /\ UNCHANGED <<files, idx, tv_sec, clock, dbDirs, copied, trace>>
               ELSE IF interrupted
               THEN /\ Fatal("interrupted during backup")
                    /\ UNCHANGED <<files, idx, tv_sec, clock, dbDirs, copied, trace>>
               ELSE \E st \in {"ENOENT", "EOTHER", file.mode}, copier_ok \in BOOLEAN :
                    CASE st = "ENOENT" ->
                           /\ files' = [files EXCEPT ![idx] = SkipEntry(@)]
                           /\ idx' = idx + 1
                           /\ Goto("file_loop")
                           /\ trace' = Append(trace, "ENOENT")
                           /\ UNCHANGED <<tv_sec, clock, dbDirs, copied>>
                      [] st = "EOTHER" ->
                           /\ Fatal("can't stat backup mode.")
                           /\ UNCHANGED <<files, idx, tv_sec, clock, dbDirs, copied, trace>>
                      [] st = "DIR" ->
                           /\ dbDirs' = IF check THEN dbDirs ELSE dbDirs \cup {file.path}
                           /\ idx' = idx + 1
                           /\ Goto("file_loop")
                           /\ trace' = Append(trace, "directory")
                           /\ UNCHANGED <<files, tv_sec, clock, copied>>
                      [] st = "REG" ->
                           IF SkipUnmodified(file, prev_files)
                           THEN /\ files' = [files EXCEPT ![idx] = SkipEntry(@)]
                                /\ idx' = idx + 1
                                /\ Goto("file_loop")
                                /\ trace' = Append(trace, "unmodified")
                                /\ UNCHANGED <<tv_sec, clock, dbDirs, copied>>
                           ELSE /\ tv_sec' = WaitNextSecond(tv_sec, clock, file.mtime)
                                /\ clock' = Max(clock, tv_sec')
                                /\ copied' = copied \cup {file.path}
                                /\ trace' = Append(trace, IF file.is_datafile
                                                          THEN "backup_data_file"
                                                          ELSE "copy_file")
                                /\ files' = [files EXCEPT ![idx].write_size =
                                               IF copier_ok THEN 1 ELSE BYTES_INVALID]
                                /\ idx' = idx + 1
                                /\ Goto("file_loop")
                                /\ UNCHANGED dbDirs
    /\ UNCHANGED <<opts, ini, iniWrites, dirName, dirsCreated, mkdirs_sh, file_list_txt,
                   fileListWritten, ctl, lock, recovery_conf, label, ready, serverLsn,
                   statFaults, backup_list, try_count, current, interrupted>>

\* the size summary of lines 220-235, every file counting as one byte
RECURSIVE SumRegular(_)
SumRegular(fl) ==
    IF fl = << >> THEN 0
    ELSE (IF Head(fl).mode = "REG" THEN 1 ELSE 0) + SumRegular(Tail(fl))

\* lines 217-241: create_file_list() and the size summary
CreateFileList ==
    /\ pc = "create_file_list"
    /\ IF check
       THEN /\ current' = [current EXCEPT !.data_bytes = @ + SumRegular(files)]
            /\ Goto("finish")
            /\ UNCHANGED <<file_list_txt, fileListWritten, trace>>
       ELSE \E fopen_ok \in BOOLEAN :
              IF ~fopen_ok
              THEN /\ Fatal("can't open file list")
                   /\ UNCHANGED <<file_list_txt, fileListWritten, current, trace>>
              ELSE /\ file_list_txt' = files
                   /\ fileListWritten' = TRUE
                   /\ trace' = Append(trace, "create_file_list")
                   /\ current' = [current EXCEPT !.data_bytes = @ + SumRegular(files)]
                   /\ Goto("finish")
    /\ UNCHANGED <<opts, ini, iniWrites, dirName, dirsCreated, mkdirs_sh, dbDirs, copied,
                   ctl, lock, env, data, wfa, interrupted>>

\* ---------------------------------------------------- do_backup, the ending
\* the record as lines 322-324 leave it
DoneRecordNoEndTime(cur, now) == [cur EXCEPT !.status = "DONE"]
DoneRecord(cur, now) == [cur EXCEPT !.end_time = now, !.status = "DONE"]

\* lines 320-326: pgut_atexit_pop(), update backup status to DONE
Finish ==
    /\ pc = "finish"
    /\ atexit_stack' = pgut_atexit_pop(atexit_stack)
    /\ current' = DoneRecord(current, clock)
    /\ IF check
       THEN /\ Goto("pgBackupDelete")
            /\ UNCHANGED <<ini, iniWrites, trace>>
       ELSE \E write_ok \in BOOLEAN :
              IF write_ok
              THEN /\ ini' = current'
                   /\ iniWrites' = iniWrites + 1
                   /\ trace' = Append(trace, "DONE written")
                   /\ Goto("pgBackupDelete")
              ELSE /\ Fatal("can't open backup.ini")
                   /\ UNCHANGED <<ini, iniWrites, trace>>
    /\ UNCHANGED <<opts, dirName, dirsCreated, mkdirs_sh, file_list_txt, fileListWritten,
                   dbDirs, copied, in_backup, server_version, lock, env, data, wfa,
                   interrupted>>

\* line 349: pgBackupDelete(), the retention policy
Delete ==
    /\ pc = "pgBackupDelete"
    /\ \E delete_ok \in BOOLEAN :
         IF delete_ok THEN Goto("catalog_unlock") ELSE Fatal("cannot delete old backups")
    /\ UNCHANGED <<opts, disk, ctl, lock, env, data, wfa, current, trace, interrupted>>

\* lines 351-359: free the file list, release the catalog lock and return 0
Unlock ==
    /\ pc = "catalog_unlock"
    /\ files' = << >>
    /\ lockHeld' = FALSE
    /\ exitStatus' = 0
    /\ pc' = "returned"
    /\ UNCHANGED <<errlog, in_cleanup, lockRet, opts, disk, ctl, env, backup_list,
                   prev_files, lsn, idx, tv_sec, wfa, current, trace, interrupted>>

\* ------------------------------------------------------------------- exit
\* exit(): the registered callback runs once; an exit from inside the callback
\* ends the process at once.  The lists and locals of the abandoned frames are
\* not read again and are dropped here.
Exit ==
    /\ pc = "exit"
    /\ in_cleanup' = (in_cleanup \/ atexit_stack)
    /\ pc' = IF atexit_stack /\ ~in_cleanup THEN "cleanup" ELSE "exited"
    /\ backup_list' = << >>
    /\ prev_files' = NullFiles
    /\ lsn' = 0
    /\ files' = << >>
    /\ idx' = 0
    /\ tv_sec' = 0
    /\ try_count' = 0
    /\ UNCHANGED <<errlog, exitStatus, opts, disk, ctl, lock, env, wfaCtx, current, trace,
                   interrupted>>

\* ----------------------------------------------------------- backup_cleanup
\* lines 608-618: with backup_label in place, tell the server to stop
CleanupStart ==
    /\ pc = "cleanup"
    /\ IF ~in_backup
       THEN /\ Goto("exited")
            /\ UNCHANGED <<wfaCtx, statFaults>>
       ELSE \E st \in StatOf(label, statFaults), g \in BOOLEAN :
              /\ statFaults' = Faults(st, statFaults)
              /\ IF fileExists(st, g)
                 THEN /\ wfaCtx' = "cleanup"
                      /\ Goto("wait_for_archive")
                 ELSE /\ Goto("cleanup_update")
                      /\ UNCHANGED wfaCtx
    /\ UNCHANGED <<opts, disk, ctl, lock, recovery_conf, label, ready, clock, serverLsn,
                   data, try_count, current, trace, interrupted>>

\* the record as lines 627-628 leave it
ErrorRecord(cur, now) == [cur EXCEPT !.end_time = now, !.status = "ERROR"]

\* (variant: the record is updated unless it is DONE)
NeedsErrorUpdateNotDone(cur) == cur.status # "DONE"

\* (variant: the record is updated whatever its status)
NeedsErrorUpdateAlways(cur) == TRUE

\* line 624: the record is updated only while it is RUNNING with no end time
NeedsErrorUpdate(cur) == cur.status = "RUNNING" /\ cur.end_time = 0

\* the directory named by the start time of the record is there: this run
\* has created it, or an earlier run that started in the same second has
RecordDirThere(created, found) == created # 0 \/ found

\* lines 620-630: update status of backup.ini to ERROR.  pgBackupWriteIni()
\* is called whatever the check flag is; it needs the record directory and
\* can fail like any write.
CleanupUpdate ==
    /\ pc = "cleanup_update"
    /\ IF NeedsErrorUpdate(current)
       THEN /\ current' = ErrorRecord(current, clock)
            /\ \E write_ok \in BOOLEAN, found \in BOOLEAN :
                 IF write_ok /\ RecordDirThere(dirName, found)
                 THEN /\ ini' = current'
                      /\ iniWrites' = iniWrites + 1
                      /\ Goto("exited")
                 ELSE /\ Fatal("can't open backup.ini")
                      /\ UNCHANGED <<ini, iniWrites>>
       ELSE /\ Goto("exited")
            /\ UNCHANGED <<current, ini, iniWrites>>
    /\ UNCHANGED <<opts, dirName, dirsCreated, mkdirs_sh, file_list_txt, fileListWritten,
                   dbDirs, copied, ctl, lock, env, data, wfa, trace, interrupted>>

\* ------------------------------------------------------------ specification
Next ==
    \/ Signal
    \/ CheckArgs
    \/ check_server_version
    \/ CatalogLock
    \/ InitRecord
    \/ CreateDir
    \/ GetBackupList
    \/ StandbyCheck
    \/ ParentCheck
    \/ pg_start_backup
    \/ CheckLabel
    \/ ListDirs
    \/ ReadPrev
    \/ AddFiles
    \/ WfaExec
    \/ WfaPoll
    \/ ExtractPageMap
    \/ BackupFilesStart
    \/ FileLoop
    \/ CreateFileList
    \/ Finish
    \/ Delete
    \/ Unlock
    \/ Exit
    \/ CleanupStart
    \/ CleanupUpdate

Spec == Init /\ [][Next]_vars

\* ------------------------------------------------------- history operators
\* event e has happened
Has(e) == \E i \in 1..Len(trace) : trace[i] = e

\* every occurrence of event b has an occurrence of event a before it
Precedes(a, b) ==
    \A i \in 1..Len(trace) : trace[i] = b => \E j \in 1..(i - 1) : trace[j] = a

\* number of events of the set S so far
Count(S) == Cardinality({ i \in 1..Len(trace) : trace[i] \in S })

\* the last event
LastEvent == IF trace = << >> THEN "none" ELSE trace[Len(trace)]

\* one event per pass of the loop of backup_files
EntryEvents == {"ENOENT", "directory", "unmodified", "backup_data_file", "copy_file"}
\* the passes that hand the entry to a copier
CopyEvents == {"backup_data_file", "copy_file"}

\* the messages of the two interrupt checks (lines 504 and 667)
InterruptMsgs == { "interrupted during backup",
                   "interrupted during waiting for WAL archiving" }

\* ------------------------------------------------------------------ claims

\* C1: after do_backup has returned successfully outside check mode, this run
\* has created exactly one record directory, the manifest on disk is DONE with
\* a non-zero end time, and its start time is the value that named the
\* directory; from the creation of the directory on, the start time of the
\* record in memory stays that value.
C1_SuccessLeavesOneDoneRecord ==
    /\ dirsCreated > 0 => current.start_time = dirName
    /\ (pc = "returned" /\ ~check) =>
          /\ dirsCreated = 1
          /\ ini.status = "DONE"
          /\ ini.end_time # 0
          /\ ini.start_time = dirName

C1_Witness == pc = "returned" /\ ~check /\ ini.status = "DONE" /\ dirName = ini.start_time

\* the only errors of the run are those of wait_for_archive's and
\* backup_files' loops: an observed interrupt or the archive timeout (no
\* server call and no write has failed)
OnlyLoopErrors ==
    \A i \in 1..Len(errlog) :
        errlog[i] \in InterruptMsgs \cup {"switched WAL could not be archived in 10 seconds"}

FatalInSteps6to13 ==
    /\ errlog # << >>
    /\ \/ errlog[1] \in { "server version mismatch",
                          "block_size is not compatible",
                          "Backup cannot run on a standby.",
                          "sanity check failed",
                          "Valid full backup not found for differential backup.",
                          "result of backup command is invalid",
                          "result of txid_current() is invalid",
                          "backup_label does not exist in PGDATA.",
                          "can't open make directory script",
                          "can't change mode of mkdirs.sh",
                          "switched WAL could not be archived in 10 seconds",
                          "could not read WAL record",
                          "current time may be rewound. Please retry with full backup mode.",
                          "can't stat backup mode.",
                          "can't open file list" } \cup InterruptMsgs
       \/ errlog[1] = "can't open backup.ini" /\ Has("pg_stop_backup returned")

\* C3: a run outside check mode that ended by a fatal error raised between the
\* server version check and the final manifest write leaves the manifest of
\* the current record on disk in status ERROR.
C3_FatalLeavesErrorRecord ==
    (pc = "exited" /\ ~check /\ FatalInSteps6to13) => ini.status = "ERROR"

\* C4: once catalog_lock() has answered that the lock is acquired, the lock
\* has been released by the time the invocation has ended, be it by return or
\* by an exit that ran backup_cleanup.
C4_LockReleasedAtEnd ==
    (lockRet = 0 /\ (pc = "returned" \/ (pc = "exited" /\ in_cleanup))) => ~lockHeld

\* C5: when catalog_lock() reports contention, the record is not initialised,
\* no directory and no manifest is created, pg_start_backup and pg_stop_backup
\* are not issued, the cleanup handler is neither registered nor run, and the
\* run only exits.
C5_ContentionMutatesNothing ==
    lockRet = 1 =>
        /\ pc \in {"exit", "exited"}
        /\ current.status = "NONE"
        /\ current.start_time = 0
        /\ ini = NoRecord
        /\ iniWrites = 0
        /\ dirsCreated = 0
        /\ dirName = 0
        /\ ~mkdirs_sh
        /\ ~fileListWritten
        /\ dbDirs = {}
        /\ copied = {}
        /\ trace = << >>
        /\ ~atexit_stack
        /\ ~in_cleanup
        /\ ~lockHeld

C5_Witness == pc = "exited" /\ lockRet = 1 /\ exitStatus # -1

\* C6: the exit status of a run that ended by a fatal error other than lock
\* contention differs from the exit status of lock contention.
C6_ContentionStatusDistinct ==
    (pc = "exited" /\ errlog # << >> /\ lockRet # 1)
        => exitStatus # ExitStatus(LockElevel(1))

\* C7 (as amended): pg_start_backup has returned before the data directory is
\* listed; the pg_stop_backup of the normal path (line 215) is issued only
\* after backup_files has passed over every entry of the file list; the file
\* list and the DONE manifest are written only after that pg_stop_backup has
\* returned.
C7_StartListStopOrder ==
    /\ Precedes("pg_start_backup", "dir_list_file")
    /\ Precedes("pg_start_backup", "add_files")
    /\ (wfaCtx = "stop" /\ pc \in {"wait_for_archive", "wfa_poll"}) =>
          /\ Has("backup_files returned")
          /\ Count(EntryEvents) = Len(files)
    /\ Precedes("pg_stop_backup returned", "create_file_list")
    /\ Precedes("pg_stop_backup returned", "DONE written")

C7_Witness ==
    /\ Has("DONE written")
    /\ Count(CopyEvents) > 0
    /\ Count(EntryEvents) = MaxFiles

\* C7 (as stated): as above, but every pg_stop_backup of the run is issued
\* only after backup_files has finished.
C7_StopOnlyAfterAllFiles ==
    /\ Precedes("pg_start_backup", "dir_list_file")
    /\ Precedes("pg_start_backup", "add_files")
    /\ Precedes("backup_files returned", "pg_stop_backup")
    /\ Precedes("pg_stop_backup returned", "create_file_list")
    /\ Precedes("pg_stop_backup returned", "DONE written")

\* C8: in a DIFF_PAGE run pg_start_backup returns, then the WAL switch is
\* issued, then wait_for_archive returns, then the WAL reader runs, then the
\* first file is copied; and the WAL reader does not start while the .ready
\* marker of the switched segment is present.
C8_DiffPageOrder ==
    current.backup_mode = "DIFF_PAGE" =>
        /\ Precedes("pg_start_backup", "pg_switch_xlog")
        /\ Precedes("pg_switch_xlog", "wait_for_archive returned")
        /\ Precedes("wait_for_archive returned", "extractPageMap")
        /\ \A e \in CopyEvents : Precedes("extractPageMap", e)
        /\ pc = "extractPageMap" => ready = "absent"

\* C9: whenever the manifest on disk is DONE, pg_stop_backup has returned and
\* its stop position, timeline, recovery xid and recovery time are in the
\* manifest, backup_files has passed over every entry of the file list, the
\* file list is written, the end time is not zero and backup_cleanup is no
\* longer registered.
C9_DoneManifestIsComplete ==
    ini.status = "DONE" =>
        /\ Has("pg_stop_backup returned")
        /\ ini.stop_lsn # 0
        /\ ini.tli = CurrentTli
        /\ ini.recovery_xid # 0
        /\ ini.recovery_time # 0
        /\ Has("backup_files returned")
        /\ Count(EntryEvents) = Len(file_list_txt)
        /\ fileListWritten
        /\ ini.end_time # 0
        /\ ~atexit_stack

C9_Witness ==
    /\ ini.status = "DONE"
    /\ pc = "pgBackupDelete"
    /\ Len(file_list_txt) = MaxFiles

\* C10: in a DIFF_PAGE run, a relation file that stat() found in place and
\* whose page map holds a block is handed to backup_data_file.
C10_DirtyRelationCopied ==
    ( /\ current.backup_mode = "DIFF_PAGE"
      /\ pc = "file_loop"
      /\ idx > 1
      /\ files[idx - 1].is_datafile
      /\ files[idx - 1].pagemap # {}
      /\ LastEvent # "ENOENT" )
        => LastEvent = "backup_data_file"

\* C11: in a DIFF_PAGE run, a regular file that stat() found in place and
\* that has no entry in the parent's file list is handed to a copier, whether
\* or not its page map is empty.
C11_NewFileCopied ==
    ( /\ current.backup_mode = "DIFF_PAGE"
      /\ pc = "file_loop"
      /\ idx > 1
      /\ files[idx - 1].mode = "REG"
      /\ ~prev_files.isNull
      /\ prev_files.mtime[files[idx - 1].path] = 0
      /\ LastEvent # "ENOENT" )
        => /\ LastEvent \in CopyEvents
           /\ files[idx - 1].path \in copied

C11_Witness ==
    /\ current.backup_mode = "DIFF_PAGE"
    /\ pc = "file_loop"
    /\ idx > 1
    /\ files[idx - 1].is_datafile
    /\ files[idx - 1].pagemap = {}
    /\ ~prev_files.isNull
    /\ prev_files.mtime[files[idx - 1].path] = 0
    /\ \E p \in Paths : prev_files.mtime[p] # 0
    /\ LastEvent = "backup_data_file"

\* C12: pg_start_backup is issued only when recovery.conf is absent from the
\* data directory and, in DIFF_PAGE mode, the backup list holds a DONE FULL
\* record of the current timeline; a run refused for one of these reasons has
\* issued no server call of the backup, listed nothing and copied nothing.
C12_StartOnlyWhenAllowed ==
    /\ pc = "check_label" =>
          /\ recovery_conf = "absent"
          /\ current.backup_mode = "DIFF_PAGE" =>
                catalog_get_last_data_backup(backup_list, CurrentTli) # NoRecord
    /\ ( /\ errlog # << >>
         /\ errlog[1] \in { "Backup cannot run on a standby.",
                            "Valid full backup not found for differential backup." } )
          => /\ trace = << >>
             /\ copied = {}
             /\ dbDirs = {}
             /\ ~mkdirs_sh

\* no write of backup.ini has failed
NoWriteFailure == \A i \in 1..Len(errlog) : errlog[i] # "can't open backup.ini"

\* the run found backup_label absent right after pg_start_backup (the call of
\* pg_stop_backup follows pg_start_backup at once, and every fileExists() of
\* the run answered for the file's true state)
LabelFoundAbsent ==
    /\ Len(trace) >= 2
    /\ trace[2] = "pg_stop_backup"
    /\ statFaults = 0

C14_MissingArgsNoEffect ==
    (~pgdata \/ current.backup_mode = "INVALID") =>
        /\ pc \in {"start", "exit", "exited"}
        /\ pc # "start" =>
              /\ errlog = << IF ~pgdata
                             THEN "Required parameter not specified: PGDATA (-D, --pgdata)"
                             ELSE "Required parameter not specified: BACKUP_MODE (-b, --backup-mode)" >>
              /\ exitStatus = ExitStatus("ERROR")
        /\ server_version = "unchecked"
        /\ ~in_backup
        /\ lockRet = 2
        /\ ~lockHeld
        /\ current.status = "NONE"
        /\ dirsCreated = 0
        /\ iniWrites = 0
        /\ ini = NoRecord
        /\ ~atexit_stack
        /\ ~in_cleanup
        /\ trace = << >>

C14_Witness ==
    /\ pc = "exited"
    /\ pgdata
    /\ current.backup_mode = "INVALID"
    /\ errlog = << "Required parameter not specified: BACKUP_MODE (-b, --backup-mode)" >>

\* C15: one call of wait_for_archive sleeps at most TIMEOUT_ARCHIVE times:
\* the count of sleeps never passes TIMEOUT_ARCHIVE, and once it has reached
\* TIMEOUT_ARCHIVE the call does not test the marker again.
C15_AtMostTenSleeps ==
    /\ try_count <= TIMEOUT_ARCHIVE
    /\ pc = "wfa_poll" => try_count < TIMEOUT_ARCHIVE

\* C16: in backup_files, a pass whose stat failed with ENOENT leaves the entry
\* with the sentinel as its write size, copies nothing for it, raises no error
\* and goes on with the next entry; when stat fails for another reason the run
\* ends with "can't stat backup mode." and the entry of the failure and every
\* later entry have had no pass: one pass per earlier entry, write size as
\* scanned, and nothing of theirs copied or created by the loop.
C16_StatFailure ==
    /\ (pc = "file_loop" /\ idx > 1 /\ LastEvent = "ENOENT") =>
          /\ files[idx - 1].write_size = BYTES_INVALID
          /\ Count(EntryEvents) = idx - 1
          /\ errlog = << >>
    /\ (pc = "exit" /\ errlog = <<"can't stat backup mode.">>) =>
          /\ idx \in 1..Len(files)
          /\ Count(EntryEvents) = idx - 1
          /\ \A i \in idx..Len(files) : files[i].write_size = 0
          /\ Cardinality(copied) <= Count(CopyEvents)
          /\ Cardinality(dbDirs) <= Count({"directory"})

\* an ENOENT pass on the first entry followed by a pass that copied the second
C16_Witness ==
    /\ pc = "file_loop"
    /\ idx = 3
    /\ trace[Len(trace) - 1] = "ENOENT"
    /\ LastEvent \in CopyEvents
    /\ files[1].write_size = BYTES_INVALID
    /\ files[2].write_size = 1
    /\ errlog = << >>

\* C17: when a pass of backup_files has handed a regular file to a copier,
\* the second last read from the clock is strictly later than the mtime the
\* file list holds for that file.
C17_CopyAfterMtimeSecond ==
    (pc = "file_loop" /\ idx > 1 /\ LastEvent \in CopyEvents) =>
        /\ files[idx - 1].mode = "REG"
        /\ tv_sec > files[idx - 1].mtime
        /\ clock >= tv_sec

\* the first entry bore the second the loop started in, and was copied in the
\* next one
C17_Witness ==
    /\ pc = "file_loop"
    /\ idx = 2
    /\ LastEvent \in CopyEvents
    /\ current.start_time = StartClock
    /\ files[1].mtime = StartClock
    /\ tv_sec = StartClock + 1
    /\ files[1].path \in copied

\* the message of the check of lines 659-663
RewindMsg == "current time may be rewound. Please retry with full backup mode."

\* the run ended on the rewind check and nothing but a wait for the archiver
\* went wrong after it
RewindThenOnlyWaits ==
    /\ errlog # << >>
    /\ errlog[1] = RewindMsg
    /\ \A i \in 2..Len(errlog) :
          errlog[i] \in InterruptMsgs \cup {"switched WAL could not be archived in 10 seconds"}

\* the rewind error is raised for an entry whose mtime is later than the
\* second last read, before that entry or a later one has had a pass
RewindBeforeEntry ==
    (pc = "exit" /\ errlog = <<RewindMsg>>) =>
        /\ idx \in 1..Len(files)
        /\ tv_sec < files[idx].mtime
        /\ Count(EntryEvents) = idx - 1
        /\ \A i \in idx..Len(files) : files[i].write_size = 0
        /\ Cardinality(copied) <= Count(CopyEvents)
        /\ Cardinality(dbDirs) <= Count({"directory"})

CleanupAgain ==
    /\ pc = "exited"
    /\ in_cleanup
    /\ Len(errlog) = 1
    /\ ~Has("backup_cleanup again")
    /\ trace' = Append(trace, "backup_cleanup again")
    /\ pc' = "cleanup"
    /\ UNCHANGED <<errlog, exitStatus, in_cleanup, interrupted, opts, disk, ctl, lock,
                   env, data, wfa, current>>

NextTwice ==
    \/ Next
    \/ CleanupAgain

SpecTwice == Init /\ [][NextTwice]_vars

StartedNotStopped == Has("pg_start_backup") /\ ~Has("pg_stop_backup")

\* C20: on a fatal exit after pg_start_backup succeeded and before any
\* pg_stop_backup was issued, the cleanup handler goes on to the status update
\* without a server call only when backup_label is absent, it calls
\* pg_stop_backup only when backup_label is present, and the record is not
\* yet ERROR while that call is under way.
C20_CleanupStopsIffLabel ==
    /\ (pc = "cleanup_update" /\ StartedNotStopped) => label = "absent"
    /\ (pc = "wait_for_archive" /\ wfaCtx = "cleanup" /\ StartedNotStopped) =>
          /\ label = "regular"
          /\ current.status # "ERROR"
    /\ (wfaCtx = "cleanup" /\ Has("pg_stop_backup") /\ pc = "wfa_poll") =>
          current.status # "ERROR"

\* C21: the status of the current record, once RUNNING, changes at most once,
\* to DONE or to ERROR, and stays there; a step of backup_cleanup on a record
\* that is not RUNNING or has an end time leaves the record and the manifest
\* on disk as they are and writes nothing.
C21_StatusMonotone ==
    [][ /\ current.status = "RUNNING" => current'.status \in {"RUNNING", "DONE", "ERROR"}
        /\ current.status = "DONE" => current'.status = "DONE"
        /\ current.status = "ERROR" => current'.status = "ERROR"
        /\ (in_cleanup /\ ~(current.status = "RUNNING" /\ current.end_time = 0)) =>
              /\ current' = current
              /\ ini' = ini
              /\ iniWrites' = iniWrites ]_vars

\* backup_cleanup has run on a record that was already ERROR, after a
\* pg_stop_backup of its own, and has left it
C21_Witness ==
    /\ Has("backup_cleanup again")
    /\ LastEvent = "pg_stop_backup"
    /\ pc = "exited"
    /\ Len(errlog) = 1
    /\ current.status = "ERROR"
    /\ current.end_time # 0
    /\ ini.status = "ERROR"

\* ------------------------------------------- process_block_change on its own
\* The arguments the calls are made with: the main fork and another one, a
\* relation with files in the list and one without, and block numbers around
\* the segment boundaries up to the last block of segment 16383.
PbcForks == {"main", "fsm"}
PbcRels == {100, 200}
PbcBlknos == { 0, 1, RELSEG_SIZE - 1, RELSEG_SIZE, RELSEG_SIZE + 1, 2 * RELSEG_SIZE,
               16383 * RELSEG_SIZE + (RELSEG_SIZE - 1) }

\* backup_files_list as extractPageMap finds it: scanned, marked, sorted by
\* path descending
PbcLists == { SortDesc(add_files(fl)) : fl \in ScanResults }

InitPbc ==
    /\ pc = "process_block_change"
    /\ pgdata = TRUE
    /\ check = FALSE
    /\ current = [NoRecord EXCEPT !.backup_mode = "DIFF_PAGE"]
    /\ in_backup = FALSE
    /\ server_version = "unchecked"
    /\ atexit_stack = FALSE
    /\ in_cleanup = FALSE
    /\ interrupted = FALSE
    /\ lockRet = 2
    /\ lockHeld = FALSE
    /\ ini = NoRecord
    /\ iniWrites = 0
    /\ dirName = 0
    /\ dirsCreated = 0
    /\ mkdirs_sh = FALSE
    /\ file_list_txt = << >>
    /\ fileListWritten = FALSE
    /\ dbDirs = {}
    /\ copied = {}
    /\ recovery_conf = "absent"
    /\ label = "absent"
    /\ ready = "absent"
    /\ clock = StartClock
    /\ tv_sec = 0
    /\ serverLsn = 1
    /\ backup_list = << >>
    /\ prev_files = NullFiles
    /\ lsn = 0
    /\ files \in PbcLists
    /\ idx = 0
    /\ wfaCtx = "none"
    /\ try_count = 0
    /\ statFaults = 0
    /\ errlog = << >>
    /\ exitStatus = -1
    /\ trace = << >>
    /\ pbc = NoCall

\* what a call of process_block_change leaves alone
PbcFrame ==
    UNCHANGED <<pc, errlog, exitStatus, in_cleanup, pgdata, check, disk, ctl, lock, env,
                backup_list, prev_files, lsn, idx, tv_sec, wfa, current, trace,
                interrupted>>

\* lines 896-935: one call, with any arguments
PbcCall ==
    /\ pc = "process_block_change"
    /\ pbc.n < MaxCalls
    /\ \E f \in PbcForks, r \in PbcRels, b \in PbcBlknos :
         /\ files' = process_block_change(files, f, r, b)
         /\ pbc' = [forknum |-> f, rel |-> r, blkno |-> b, segno |-> SegNo(b),
                    blkno_inseg |-> BlknoInSeg(b), path |-> LookupPath(f, r, b),
                    before |-> files, n |-> pbc.n + 1, again |-> FALSE]
    /\ PbcFrame

\* lines 896-935: one more call with the arguments of the call before
PbcCallAgain ==
    /\ pc = "process_block_change"
    /\ pbc.n > 0
    /\ pbc.n < MaxCalls
    /\ files' = process_block_change(files, pbc.forknum, pbc.rel, pbc.blkno)
    /\ pbc' = [pbc EXCEPT !.before = files, !.n = @ + 1, !.again = TRUE]
    /\ PbcFrame

NextPbc ==
    \/ PbcCall
    \/ PbcCallAgain

SpecPbc == InitPbc /\ [][NextPbc]_vars

\* the entries of the list given to the last call whose path is the path the
\* call looked up
PbcHits == { j \in 1..Len(pbc.before) : EntryPath(pbc.before[j]) = pbc.path }

\* C22: a call of process_block_change changes nothing of the file list but
\* page maps, and at most one of them: an entry whose path is the segment path
\* of the block gets the in-segment block number added to its page map, every
\* other page map stays; with no such entry the list stays as it was; no error
\* is raised; and a call repeated with the same arguments changes nothing.
C22_AtMostOnePageMap ==
    pbc.n > 0 =>
        /\ Len(files) = Len(pbc.before)
        /\ \A j \in 1..Len(files) :
              /\ [files[j] EXCEPT !.pagemap = pbc.before[j].pagemap] = pbc.before[j]
              /\ files[j].pagemap =
                    IF j \in PbcHits
                    THEN pbc.before[j].pagemap \cup {pbc.blkno % RELSEG_SIZE}
                    ELSE pbc.before[j].pagemap
        /\ Cardinality({ j \in 1..Len(files) :
                           files[j].pagemap # pbc.before[j].pagemap }) <= 1
        /\ PbcHits = {} => files = pbc.before
        /\ pbc.again => files = pbc.before
        /\ errlog = << >>
        /\ exitStatus = -1

\* a block of segment 1 was noted in the map of base/1/100.1, which held
\* another block already, and the call was then repeated
C22_Witness ==
    /\ pbc.n = MaxCalls
    /\ pbc.again
    /\ pbc.segno = 1
    /\ Len(files) = 2
    /\ \E j \in PbcHits : /\ pbc.blkno_inseg \in files[j].pagemap
                          /\ Cardinality(files[j].pagemap) = 2

\* C28: for the block number b of a call, the segment s and the in-segment
\* block r the call computes satisfy s * RELSEG_SIZE + r = b and
\* 0 <= r < RELSEG_SIZE; every value in a page map is in that range and the
\* call adds no value but r; the path looked up is the data directory joined
\* with the relation path, without suffix for s = 0 and with suffix .s for
\* s > 0, and only an entry of that path has its page map changed.
C28_SegmentArithmetic ==
    pbc.n > 0 =>
        /\ pbc.segno * RELSEG_SIZE + pbc.blkno_inseg = pbc.blkno
        /\ pbc.blkno_inseg >= 0
        /\ pbc.blkno_inseg < RELSEG_SIZE
        /\ \A j \in 1..Len(files) :
              /\ \A x \in files[j].pagemap : x >= 0 /\ x < RELSEG_SIZE
              /\ files[j].pagemap \ pbc.before[j].pagemap \subseteq {pbc.blkno_inseg}
              /\ files[j].pagemap # pbc.before[j].pagemap =>
                    PgdataRoot \o "/" \o PathTable[files[j].path].name = pbc.path
        /\ pbc.path = PgdataRoot \o "/" \o relpathperm(pbc.rel, pbc.forknum)
                        \o (IF pbc.segno = 0 THEN "" ELSE "." \o ToString(pbc.segno))

\* block RELSEG_SIZE + 1 of relation 100 was noted as block 1 of base/1/100.1,
\* and the last block of segment 16383 was looked up after it
C28_Witness ==
    /\ pbc.n = 2
    /\ pbc.blkno = 16383 * RELSEG_SIZE + (RELSEG_SIZE - 1)
    /\ pbc.segno = 16383
    /\ pbc.blkno_inseg = RELSEG_SIZE - 1
    /\ pbc.path = "/pgdata/base/1/100.16383"
    /\ \E j \in 1..Len(files) : /\ PathTable[files[j].path].name = "base/1/100.1"
                                /\ files[j].pagemap = {1}

\* the WAL reader is about to be called: in a differential run, after the one
\* WAL switch, with the start position of the most recent DONE FULL record of
\* the current timeline, the current timeline and the start position of this
\* backup
ReaderCallIsParentRange ==
    pc = "extractPageMap" =>
        LET parent == catalog_get_last_data_backup(backup_list, CurrentTli) IN
        /\ current.backup_mode = "DIFF_PAGE"
        /\ Count({"pg_switch_xlog"}) = 1
        /\ ~Has("extractPageMap")
        /\ parent # NoRecord
        /\ parent.backup_mode = "FULL"
        /\ parent.status = "DONE"
        /\ parent.tli = CurrentTli
        /\ ReaderArgs = [from |-> parent.start_lsn, tli |-> CurrentTli,
                         to |-> current.start_lsn]

\* the reader is called once in a differential run that gets to the file
\* loop, and neither the switch nor the reader happens in a full run
ReaderCalledOnce ==
    /\ Count({"extractPageMap"}) <= 1
    /\ (current.backup_mode = "DIFF_PAGE" /\ pc \in {"backup_files", "file_loop"}) =>
          Count({"extractPageMap"}) = 1
    /\ current.backup_mode = "FULL" => ~Has("pg_switch_xlog") /\ ~Has("extractPageMap")

\* pg_start_backup stores the position the server answers, and no later step
\* changes the start position of the record
StartLsnKept ==
    /\ (~Has("pg_start_backup") /\ Has("pg_start_backup")') =>
          current'.start_lsn = serverLsn'
    /\ Has("pg_start_backup") => current'.start_lsn = current.start_lsn

\* C23: in a DIFF_PAGE run the WAL reader is called exactly once, from the
\* start position of the parent that passed the parent check, on the current
\* timeline, up to the start position pg_start_backup returned, which the
\* WAL switch and its wait leave as it is; in a FULL run there is neither a
\* WAL switch nor a call of the reader.
C23_ReaderOnceOverParentRange ==
    /\ [](ReaderCallIsParentRange /\ ReaderCalledOnce)
    /\ [][StartLsnKept]_vars

\* the reader has run in a differential backup; the switch has moved the stop
\* position past the start position
C23_Witness ==
    /\ pc = "backup_files"
    /\ current.backup_mode = "DIFF_PAGE"
    /\ trace = <<"pg_start_backup", "dir_list_file", "add_files", "pg_switch_xlog",
                 "wait_for_archive returned", "extractPageMap">>
    /\ current.stop_lsn > current.start_lsn
    /\ errlog = << >>

\* C24: with the interrupt flag set, a pass of backup_files ends the run with
\* an error and copies or creates nothing; a test of the loop of
\* wait_for_archive that finds the flag set and leaves the .ready marker
\* present ends the wait with the interrupt error after one sleep; and an
\* exit on an interrupt error starts the cleanup handler unless the exit
\* happens inside it.
C24_InterruptAtLoopTops ==
    [][ /\ (pc = "file_loop" /\ interrupted /\ MoreFiles(idx, Len(files))) =>
              /\ pc' = "exit"
              /\ Len(errlog') = Len(errlog) + 1
              /\ copied' = copied
              /\ dbDirs' = dbDirs
              /\ files' = files
              /\ trace' = trace
        /\ (pc = "wfa_poll" /\ interrupted /\ ready = "regular" /\ ready' = "regular") =>
              /\ pc' = "exit"
              /\ errlog' = Append(errlog, "interrupted during waiting for WAL archiving")
              /\ clock' = Tick(clock)
        /\ (pc = "exit" /\ errlog[Len(errlog)] \in InterruptMsgs) =>
              (pc' = "cleanup" \/ in_cleanup) ]_vars

\* C25: with the check flag set, nothing is created or written under the
\* backup catalog: no record directory, no backup.ini, no mkdirs.sh, no file
\* list and no directory under database/.
C25_CheckWritesNothing ==
    check =>
        /\ dirsCreated = 0
        /\ dirName = 0
        /\ iniWrites = 0
        /\ ini = NoRecord
        /\ ~mkdirs_sh
        /\ ~fileListWritten
        /\ file_list_txt = << >>
        /\ dbDirs = {}

\* C26: a process that has exited with a RUNNING manifest on disk had the
\* cleanup handler registered when the fatal error was raised, so that the
\* handler has at least been started.
C26_RunningManifestIsCovered ==
    (pc = "exited" /\ ini.status = "RUNNING") => in_cleanup

\* ---------------------------------------------------------------- progress
\* a step of the program itself (the signal is the only step of the
\* environment, and the only one that changes the interrupt flag)
ProgramStep == Next /\ UNCHANGED interrupted

\* a pass of the loop of wait_for_archive that the archiver does not help:
\* the marker is still there after it
PollAlone == WfaPoll /\ ready' = ready

\* the invocations that write: every step of a dry run is a step of these
\* with a write left out
InitLive == Init /\ ~check

\* the process keeps running while it can: every server call returns, every
\* sleep ends, the clock moves on.  Nothing is assumed of the archiver: inside
\* the loop of wait_for_archive only the passes that leave the marker in place
\* are sure to happen.
SpecLive ==
    /\ InitLive
    /\ [][Next]_vars
    /\ WF_vars(ProgramStep /\ pc # "wfa_poll")
    /\ WF_vars(PollAlone)

\* the run has ended: do_backup has returned, or the process has exited
Ended == pc \in {"returned", "exited"}

\* C27: every invocation of do_backup ends, with the record DONE after a
\* return and with an error logged after an exit; the loop of
\* wait_for_archive and the loop of backup_files do not go on for ever.
C27_Terminates ==
    /\ <>Ended
    /\ [](pc = "returned" => current.status = "DONE" /\ errlog = << >>)
    /\ [](pc = "exited" => errlog # << >>)

\* a run that slept TIMEOUT_ARCHIVE times in one wait, whose marker was then
\* removed, and that went on to return
C27_Witness ==
    /\ pc = "returned"
    /\ current.status = "DONE"
    /\ clock = MaxClock
    /\ Count(CopyEvents) = MaxFiles

====
